---- MODULE Spec2Model ----
(***************************************************************************)
(* smote() of src/smote.py as a state machine: one run of the function,    *)
(* from the split of the input by label to the returned dataframe.  A      *)
(* dataframe is a sequence of rows; a row is a record keyed by column.     *)
(* Feature values are fixed-point numbers in units of 1/UDen, so that the  *)
(* product of a random factor n/UDen and a difference of inputs is exact.  *)
(***************************************************************************)
EXTENDS Integers, Sequences, FiniteSets, TLC

\* ---- bounds of the explored inputs and random outcomes ----
MaxRows == 3
MaxK == 2
MaxMult == 2
MaxWork == 6
UDen == 2
MaxRand == 1

BucketLengths == {8}
Seeds == {0, 1}
CatValues == {0, 1}

\* ---- generic sequence helpers ----
Range(s) == {s[j] : j \in 1..Len(s)}

Max(S) == CHOOSE x \in S : \A y \in S : y <= x

RECURSIVE SumSeq(_)
SumSeq(s) == IF s = <<>> THEN 0 ELSE Head(s) + SumSeq(Tail(s))

Perms(n) == {p \in [1..n -> 1..n] : \A a, b \in 1..n : a # b => p[a] # p[b]}

\* number of positions of s holding x
Count(s, x) == Cardinality({j \in 1..Len(s) : s[j] = x})

\* floor of the square root
Sqrt(n) == CHOOSE r \in 0..n : r * r <= n /\ (r + 1) * (r + 1) > n

\* the position each index of key gets in ascending order of key, equal
\* keys in ascending order of tie
Position(key, tie) ==
  [a \in DOMAIN key |->
     1 + Cardinality({b \in DOMAIN key :
                        key[b] < key[a] \/ (key[b] = key[a] /\ tie[b] < tie[a])})]

Placed(s, pos) == [p \in 1..Len(s) |-> s[CHOOSE a \in 1..Len(s) : pos[a] = p]]

\* s reordered by ascending key, equal keys by ascending tie (the
\* one-element sets name the keys and the positions once)
SortBy(s, key, tie) ==
  CHOOSE out \in {Placed(s, pos) :
                    pos \in {Position(kt[1], kt[2]) : kt \in {<<key, tie>>}}} : TRUE

\* ---- pyspark.ml.linalg vectors, as the VectorUDT struct ----
DenseVector(vals) ==
  [type |-> "dense", size |-> Len(vals), indices |-> <<>>, values |-> vals]

SparseVector(n, idx, vals) ==
  [type |-> "sparse", size |-> n, indices |-> idx, values |-> vals]

isinstance_SparseVector(v) == v.type = "sparse"

toArray(v) ==
  IF isinstance_SparseVector(v)
  THEN [p \in 1..v.size |->
          IF \E j \in 1..Len(v.indices) : v.indices[j] = p
          THEN v.values[CHOOSE j \in 1..Len(v.indices) : v.indices[j] = p]
          ELSE 0]
  ELSE v.values

\* the feature vectors of the explored inputs: [0,0] and [2,0] dense, [6,0] sparse
FeatureVectors ==
  << DenseVector(<<0, 0>>),
     DenseVector(<<2 * UDen, 0>>),
     SparseVector(2, <<1>>, <<6 * UDen>>) >>

\* ---- the input schema and rows ----
original_cols_of_input == <<"cat", "features_for_model", "label">>

Row(l, c, v) == [cat |-> c, features_for_model |-> v, label |-> l]

\* ---- udfs ----
subtract_vector_fn_swapped(arr, u) ==
  LET a == toArray(arr[1])
      b == toArray(arr[2])
  IN  DenseVector([p \in 1..Len(a) |-> (u * (b[p] - a[p])) \div UDen])

\* u is the outcome of random.uniform(0, 1), in units of 1/UDen
subtract_vector_fn(arr, u) ==
  LET a == IF isinstance_SparseVector(arr[1]) THEN toArray(arr[1]) ELSE arr[1].values
      b == IF isinstance_SparseVector(arr[2]) THEN toArray(arr[2]) ELSE arr[2].values
  IN  DenseVector([p \in 1..Len(a) |-> (u * (a[p] - b[p])) \div UDen])

add_vector_fn(arr) ==
  LET a == IF isinstance_SparseVector(arr[1]) THEN toArray(arr[1]) ELSE arr[1].values
      b == IF isinstance_SparseVector(arr[2]) THEN toArray(arr[2]) ELSE arr[2].values
  IN  DenseVector([p \in 1..Len(a) |-> a[p] + b[p]])

\* ---- dataframes: column names in order, and rows keyed by column ----
DataFrame(cols, rws) == [columns |-> cols, rows |-> rws]

EmptyFrame == DataFrame(<<>>, <<>>)

count(df) == Len(df.rows)

RECURSIVE Distinct(_)
Distinct(s) ==
  IF s = <<>> THEN <<>>
  ELSE LET d == Distinct(SubSeq(s, 1, Len(s) - 1))
       IN  IF s[Len(s)] \in Range(d) THEN d ELSE Append(d, s[Len(s)])

RECURSIVE Masked(_, _)
Masked(s, mask) ==
  IF s = <<>> THEN <<>>
  ELSE LET front == Masked(SubSeq(s, 1, Len(s) - 1), mask)
       IN  IF mask[Len(s)] THEN Append(front, s[Len(s)]) ELSE front

\* df.filter(cond), df[cond]: mask[j] is the value of cond on row j
filter(df, mask) == DataFrame(df.columns, Masked(df.rows, mask))

\* vals[j] is the value of column c in row j; a new column goes last
withColumn(df, c, vals) ==
  DataFrame(IF c \in Range(df.columns) THEN df.columns ELSE Append(df.columns, c),
            [j \in 1..Len(df.rows) |->
               [x \in (DOMAIN df.rows[j]) \cup {c} |->
                  IF x = c THEN vals[j] ELSE df.rows[j][x]]])

drop(df, names) ==
  DataFrame(SelectSeq(df.columns, LAMBDA x : x \notin names),
            [j \in 1..Len(df.rows) |->
               [x \in (DOMAIN df.rows[j]) \ names |-> df.rows[j][x]]])

select(df, cols) ==
  DataFrame(cols, [j \in 1..Len(df.rows) |-> [x \in Range(cols) |-> df.rows[j][x]]])

union_discarded(df1, df2) == df1

\* DataFrame.union resolves columns by position, not by name
union(df1, df2) ==
  DataFrame(df1.columns,
            df1.rows \o
            [j \in 1..Len(df2.rows) |->
               [x \in Range(df1.columns) |->
                  df2.rows[j][df2.columns[CHOOSE p \in 1..Len(df1.columns) :
                                            df1.columns[p] = x]]]])

RECURSIVE reduce_union(_)
reduce_union(frames) ==
  IF Len(frames) = 1 THEN frames[1]
  ELSE CHOOSE out \in {union(front, frames[Len(frames)]) :
                         front \in {reduce_union(SubSeq(frames, 1, Len(frames) - 1))}} :
         TRUE

\* row_number().over(Window.orderBy(lit('A'))): the rows are numbered from 1
\* in the order they arrive in
row_number_over_constant(df) == [j \in 1..Len(df.rows) |-> j]

\* F.rand(seed): the value drawn for the row at position j is fixed by the seed
rand_seeded(seed, j) == (5 * (j + seed) + 3) % 7

\* ---- BucketedRandomProjectionLSH ----
randUnitVector(seed) == IF seed % 2 = 0 THEN <<1, 0>> ELSE <<-1, 0>>

brp_fit(seed, bucketLength) ==
  [randUnitVector |-> randUnitVector(seed), bucketLength |-> bucketLength]

dot(x, y) == SumSeq([p \in 1..Len(x) |-> x[p] * y[p]])

\* floor(dot(key, randUnitVector) / bucketLength)
hashFunction(m, v) == dot(toArray(v), m.randUnitVector) \div (m.bucketLength * UDen)

keyDistance(x, y) ==
  Sqrt(SumSeq([p \in 1..x.size |->
                 (toArray(x)[p] - toArray(y)[p]) * (toArray(x)[p] - toArray(y)[p])]))

\* the pairs whose hashes collide, without duplicates, with their distance;
\* the threshold is infinite, so no pair is cut by distance
approxSimilarityJoin(m, dfA, dfB) ==
  LET nA == Len(dfA.rows)
      nB == Len(dfB.rows)
      pairs == [p \in 1..(nA * nB) |->
                  [datasetA |-> dfA.rows[((p - 1) \div nB) + 1],
                   datasetB |-> dfB.rows[((p - 1) % nB) + 1]]]
      joined == SelectSeq(pairs, LAMBDA r :
                  hashFunction(m, r.datasetA.features_for_model)
                    = hashFunction(m, r.datasetB.features_for_model))
      dist == Distinct(joined)
  IN  withColumn(DataFrame(<<"datasetA", "datasetB">>, dist), "EuclideanDistance",
                 [j \in 1..Len(dist) |->
                    keyDistance(dist[j].datasetA.features_for_model,
                                dist[j].datasetB.features_for_model)])

\* line 97
remove_self_comparison(df) ==
  filter(df, [j \in 1..count(df) |-> df.rows[j].EuclideanDistance > 0])

\* F.row_number().over(Window.partitionBy("datasetA").orderBy("EuclideanDistance"));
\* tie[j] orders the rows of equal distance
r_num_over_original_rows(df, tie) ==
  [j \in 1..Len(df.rows) |->
     1 + Cardinality({q \in 1..Len(df.rows) :
           /\ df.rows[q].datasetA = df.rows[j].datasetA
           /\ \/ df.rows[q].EuclideanDistance < df.rows[j].EuclideanDistance
              \/ /\ df.rows[q].EuclideanDistance = df.rows[j].EuclideanDistance
                 /\ tie[q] < tie[j]})]

\* F.max('rand').over(Window.partitionBy('datasetA'))
max_rand_over_original_rows(df) ==
  [j \in 1..Len(df.rows) |->
     Max({df.rows[q].rand : q \in {q \in 1..Len(df.rows) :
                                     df.rows[q].datasetA = df.rows[j].datasetA}})]

inherit_per_row(r, c, side) ==
  IF r.datasetA.cat = 0 THEN r.datasetA[c] ELSE r.datasetB[c]

\* F.col("{0}.{1}".format(c)) on row r
inherit(r, c, side) == r[side][c]

\* ---- the run of smote(vectorized_sdf, smote_config) ----
VARIABLES
  vectorized_sdf,               \* argument: the input dataframe
  smote_config,                 \* argument: the SmoteConfig
  pc,                           \* position in smote()
  dataInput_min,
  dataInput_maj,
  model,                        \* the fitted LSH model
  self_join_w_distance,
  self_similarity_df_selected,
  i,                            \* the batch being generated
  df_random_sel,
  df_vec_modified,
  res,                          \* the batches generated so far
  dfunion,
  oversampled_df,
  oversampled_df_sorted,        \* oversampled_df.sort('row_number') of line 154
  returned,                     \* the dataframe smote() returns
  error                         \* the exception that ended the run, if any

vars == << vectorized_sdf, smote_config, pc, dataInput_min, dataInput_maj, model,
           self_join_w_distance, self_similarity_df_selected, i, df_random_sel,
           df_vec_modified, res, dfunion, oversampled_df,
                  oversampled_df_sorted, returned, error >>

NoModel == [randUnitVector |-> <<>>, bucketLength |-> 0]

\* class SmoteConfig
SmoteConfig(seed, bucketLength, k, multiplier, positive_label, negative_label) ==
  [seed |-> seed, bucketLength |-> bucketLength, k |-> k, multiplier |-> multiplier,
   positive_label |-> positive_label, negative_label |-> negative_label]

AllRows == [j \in 1..(2 * Cardinality(CatValues) * Len(FeatureVectors)) |->
              Row((j - 1) \div (Cardinality(CatValues) * Len(FeatureVectors)),
                  ((j - 1) \div Len(FeatureVectors)) % Cardinality(CatValues),
                  FeatureVectors[((j - 1) % Len(FeatureVectors)) + 1])]

AtLeastOne(n) == IF n < 1 THEN 1 ELSE n

\* every input of at most MaxRows rows, rows in the order of AllRows, and every
\* configuration with the labels 1 (positive) and 0 (negative)
Init ==
  /\ \E n \in 0..MaxRows :
       \E f \in [1..n -> 1..Len(AllRows)] :
         /\ \A a, b \in 1..n : a < b => f[a] <= f[b]
         /\ vectorized_sdf = DataFrame(original_cols_of_input, [j \in 1..n |-> AllRows[f[j]]])
  /\ \E seed \in Seeds, bl \in BucketLengths, k \in 0..MaxK, mult \in 0..MaxMult :
       /\ count(vectorized_sdf) * AtLeastOne(k) * AtLeastOne(mult) <= MaxWork
       /\ smote_config = SmoteConfig(seed, bl, k, mult, 1, 0)
  /\ pc = "split"
  /\ dataInput_min = EmptyFrame
  /\ dataInput_maj = EmptyFrame
  /\ model = NoModel
  /\ self_join_w_distance = EmptyFrame
  /\ self_similarity_df_selected = EmptyFrame
  /\ i = 0
  /\ df_random_sel = EmptyFrame
  /\ df_vec_modified = EmptyFrame
  /\ res = <<>>
  /\ dfunion = EmptyFrame
  /\ oversampled_df = EmptyFrame
  /\ oversampled_df_sorted = EmptyFrame
  /\ returned = EmptyFrame
  /\ error = "none"

split_all_rows(df, label) == df

\* vectorized_sdf[vectorized_sdf['label'] == label]
split_by_label(df, label) ==
  filter(df, [j \in 1..count(df) |-> df.rows[j].label = label])

\* lines 83-84
Split ==
  /\ pc = "split"
  /\ dataInput_min' = split_by_label(vectorized_sdf, smote_config.positive_label)
  /\ dataInput_maj' = split_by_label(vectorized_sdf, smote_config.negative_label)
  /\ pc' = "fit"
  /\ UNCHANGED << vectorized_sdf, smote_config, model, self_join_w_distance,
                  self_similarity_df_selected, i, df_random_sel, df_vec_modified,
                  res, dfunion, oversampled_df,
                  oversampled_df_sorted, returned, error >>

\* lines 87-91.  fit() needs the length of the feature vectors: it takes it
\* from the column's metadata when the build records it there, and from the
\* first row otherwise, which raises on a dataframe without rows.
Fit ==
  /\ pc = "fit"
  /\ \/ /\ model' = brp_fit(smote_config.seed, smote_config.bucketLength)
        /\ pc' = "join"
        /\ error' = error
     \/ /\ count(dataInput_min) = 0
        /\ model' = model
        /\ pc' = "failed"
        /\ error' = "NoSuchElementException"
  /\ UNCHANGED << vectorized_sdf, smote_config, dataInput_min, dataInput_maj,
                  self_join_w_distance, self_similarity_df_selected, i, df_random_sel,
                  df_vec_modified, res, dfunion, oversampled_df,
                  oversampled_df_sorted, returned >>

\* lines 94-97
SimilarityJoin ==
  /\ pc = "join"
  /\ self_join_w_distance' =
       remove_self_comparison(approxSimilarityJoin(model, dataInput_min, dataInput_min))
  /\ pc' = "rank"
  /\ UNCHANGED << vectorized_sdf, smote_config, dataInput_min, dataInput_maj, model,
                  self_similarity_df_selected, i, df_random_sel, df_vec_modified,
                  res, dfunion, oversampled_df,
                  oversampled_df_sorted, returned, error >>

\* the position of row r among the distinct rows of the minority set
RowIdentity(r) ==
  LET d == Distinct(dataInput_min.rows)
  IN  CHOOSE p \in 1..Len(d) : d[p] = r

\* lines 99-103.  ord is the engine's order of the rows, which decides the
\* rank among candidates of equal distance.
Rank ==
  /\ pc = "rank"
  /\ \E ord \in Perms(Len(Distinct(dataInput_min.rows))) :
       LET tie == [j \in 1..count(self_join_w_distance) |->
                     ord[RowIdentity(self_join_w_distance.rows[j].datasetB)]]
           self_similarity_df ==
             withColumn(self_join_w_distance, "r_num",
                        r_num_over_original_rows(self_join_w_distance, tie))
       IN  self_similarity_df_selected' =
             filter(self_similarity_df,
                    [j \in 1..count(self_similarity_df) |->
                       self_similarity_df.rows[j].r_num <= smote_config.k])
  /\ i' = 0
  /\ res' = <<>>
  /\ pc' = "loop"
  /\ UNCHANGED << vectorized_sdf, smote_config, dataInput_min, dataInput_maj, model,
                  self_join_w_distance, df_random_sel, df_vec_modified, dfunion,
                  oversampled_df,
                  oversampled_df_sorted, returned, error >>

\* .where(F.col('rand') == F.col('max_rand'))
where_rand_is_max_rand(df) ==
  filter(df, [j \in 1..count(df) |-> df.rows[j].rand = df.rows[j].max_rand])

\* lines 117-123: the next batch starts; rnd[j] is the outcome of F.rand() for
\* row j, in steps of 1/(MaxRand+1)
SelectNeighbour ==
  /\ pc = "loop"
  /\ i < smote_config.multiplier
  /\ \E rnd \in [1..count(self_similarity_df_selected) -> 0..MaxRand] :
       LET with_rand == withColumn(self_similarity_df_selected, "rand", rnd)
           with_max == withColumn(with_rand, "max_rand",
                                  max_rand_over_original_rows(with_rand))
       IN  df_random_sel' =
             drop(where_rand_is_max_rand(with_max), {"max_rand", "rand", "r_num"})
  /\ pc' = "generate"
  /\ UNCHANGED << vectorized_sdf, smote_config, dataInput_min, dataInput_maj, model,
                  self_join_w_distance, self_similarity_df_selected, i,
                  df_vec_modified, res, dfunion, oversampled_df,
                  oversampled_df_sorted, returned, error >>

\* lines 125-128: u[j] is the outcome of random.uniform(0, 1) for row j
interpolate(df, u) ==
  LET df_vec_diff ==
        withColumn(df, "vec_diff",
                   [j \in 1..count(df) |->
                      subtract_vector_fn(<< df.rows[j].datasetA.features_for_model,
                                            df.rows[j].datasetB.features_for_model >>,
                                         u[j])])
  IN  withColumn(df_vec_diff, "features_for_model",
                 [j \in 1..count(df_vec_diff) |->
                    add_vector_fn(<< df_vec_diff.rows[j].datasetB.features_for_model,
                                     df_vec_diff.rows[j].vec_diff >>)])

\* the loop of lines 131-137 over the columns cols, with the sides cs
RECURSIVE inherit_columns(_, _, _)
inherit_columns(df, cols, cs) ==
  IF cols = <<>> THEN df
  ELSE LET c == Head(cols)
           next == IF c # "features_for_model"
                   THEN withColumn(df, c, [j \in 1..count(df) |->
                                             inherit(df.rows[j], c, cs[c])])
                   ELSE df
       IN  inherit_columns(next, Tail(cols), cs)

\* lines 125-142: the rows of the batch are built from the selected pairs, in
\* their order.  u[j] is the factor drawn for row j, in units of 1/UDen, and
\* cs[c] the side drawn by random.choice for column c; the side drawn for
\* features_for_model is never read (line 135) and is left out of cs.
GenerateBatch ==
  /\ pc = "generate"
  /\ \E u \in [1..count(df_random_sel) -> 0..(UDen - 1)] :
       \E df_vec_interpolated \in {interpolate(df_random_sel, u)} :
           \E cs \in [Range(dataInput_min.columns) \ {"features_for_model"}
                         -> {"datasetA", "datasetB"}] :
             df_vec_modified' =
               drop(inherit_columns(df_vec_interpolated, dataInput_min.columns, cs),
                    {"datasetA", "datasetB", "vec_diff", "EuclideanDistance"})
  /\ res' = Append(res, df_vec_modified')
  /\ i' = i + 1
  /\ pc' = "loop"
  /\ UNCHANGED << vectorized_sdf, smote_config, dataInput_min, dataInput_maj, model,
                  self_join_w_distance, self_similarity_df_selected, df_random_sel,
                  dfunion, oversampled_df,
                  oversampled_df_sorted, returned, error >>

\* .sort(F.rand(seed=seed))
sort_rand_seeded(df, seed) ==
  DataFrame(df.columns,
            SortBy(df.rows, [j \in 1..count(df) |-> rand_seeded(seed, j)],
                   [j \in 1..count(df) |-> j]))

sort_row_number_descending(df, first) ==
  DataFrame(df.columns,
            SortBy(df.rows, [j \in 1..count(df) |-> 0 - df.rows[j].row_number], first))

\* .sort('row_number'); first[j] orders the rows of equal row_number
sort_row_number(df, first) ==
  DataFrame(df.columns,
            SortBy(df.rows, [j \in 1..count(df) |-> df.rows[j].row_number], first))

\* lines 144-154: reduce() of an empty list raises TypeError;
\* two rows of equal row_number come out of the sort in either order, the
\* one of the majority first where flip holds
Reassemble ==
  /\ pc = "loop"
  /\ i >= smote_config.multiplier
  /\ IF res = <<>>
     THEN /\ pc' = "failed"
          /\ error' = "TypeError"
          /\ UNCHANGED << dfunion, dataInput_maj, oversampled_df,
                          oversampled_df_sorted, returned >>
     ELSE /\ \E batches \in {reduce_union(res)} :
             \E originals \in {select(dataInput_min, batches.columns)} :
               \E unsorted \in {union(batches, originals)} :
                 \E shuffled \in {sort_rand_seeded(unsorted, smote_config.seed)} :
                   dfunion' = withColumn(shuffled, "row_number",
                                         row_number_over_constant(shuffled))
          /\ dataInput_maj' = withColumn(dataInput_maj, "row_number",
                                         row_number_over_constant(dataInput_maj))
          /\ \E majority \in {select(dataInput_maj', dfunion'.columns)} :
               oversampled_df' = union(dfunion', majority)
          /\ \E flip \in [1..count(dataInput_maj) -> BOOLEAN] :
               \E first \in {[j \in 1..count(oversampled_df') |->
                                IF /\ oversampled_df'.rows[j].row_number
                                        <= count(dataInput_maj)
                                   /\ flip[oversampled_df'.rows[j].row_number]
                                THEN 0 - j ELSE j]} :
                 oversampled_df_sorted' = sort_row_number(oversampled_df', first)
          /\ returned' = drop(oversampled_df_sorted', {"row_number"})
          /\ pc' = "done"
          /\ error' = error
  /\ UNCHANGED << vectorized_sdf, smote_config, dataInput_min, model,
                  self_join_w_distance, self_similarity_df_selected, i, df_random_sel,
                  df_vec_modified, res >>

Next ==
  \/ Split
  \/ Fit
  \/ SimilarityJoin
  \/ Rank
  \/ SelectNeighbour
  \/ GenerateBatch
  \/ Reassemble

Spec == Init /\ [][Next]_vars

\* ---- the properties ----
positive_label == smote_config.positive_label
negative_label == smote_config.negative_label

Minority == SelectSeq(vectorized_sdf.rows, LAMBDA r : r.label = positive_label)
Majority == SelectSeq(vectorized_sdf.rows, LAMBDA r : r.label = negative_label)

ValidInput ==
  /\ smote_config.k >= 1
  /\ smote_config.multiplier >= 1
  /\ Len(Minority) >= 2
  /\ Len(Majority) >= 1

\* the rows of df whose datasetA is the row src
PairsOf(df, src) == SelectSeq(df.rows, LAMBDA r : r.datasetA = src)

\* C1: for every valid input (k >= 1, multiplier >= 1, at least 2 minority
\* rows, both labels present) the returned dataset has
\* |Minority| * (multiplier + 1) + |Majority|
\* rows, and every batch has |Minority| rows.
C1_RowCount ==
  (pc = "done" /\ ValidInput) =>
    /\ count(returned) =
         Len(Minority) * (smote_config.multiplier + 1) + Len(Majority)
    /\ \A b \in 1..Len(res) : count(res[b]) = Len(Minority)

\* C2: the rows of the returned dataset labelled negative_label are, as a
\* multiset, the input rows labelled negative_label, every column value equal.
C2_MajorityUntouched ==
  pc = "done" =>
    LET out == SelectSeq(returned.rows, LAMBDA r : r.label = negative_label)
    IN  /\ Len(out) = Len(Majority)
        /\ \A r \in Range(out) \cup Range(Majority) : Count(out, r) = Count(Majority, r)

C2_Witness ==
  /\ pc = "done"
  /\ Len(Majority) >= 1
  /\ Majority[1].cat # 0
  /\ \E b \in 1..Len(res) : count(res[b]) >= 1

\* C3: with fewer than 2 minority rows smote() ends in a failure and never
\* returns a dataset; stated for a configuration that is valid otherwise
\* (k >= 1, multiplier >= 1) and an input that holds both labels.
C3_FailsOnSmallMinority ==
  (/\ smote_config.k >= 1
   /\ smote_config.multiplier >= 1
   /\ Len(Majority) >= 1
   /\ Len(Minority) = 1) => pc # "done"

\* C4: with k < 1 or multiplier < 1 smote() fails at entry: the neighbour
\* index is never fitted and no dataset is returned; stated for an input that
\* is valid otherwise (at least 2 minority rows, both labels present).
C4_ConfigErrorAtEntry ==
  (/\ smote_config.k < 1 \/ smote_config.multiplier < 1
   /\ Len(Minority) >= 2
   /\ Len(Majority) >= 1) =>
    (model = NoModel /\ pc # "done")

IsMinorityDerived(r) == r.label = positive_label
IsMajority(r) == r.label = negative_label

\* C5 as stated: in the sorted dataset every minority-derived row has a
\* smaller index than, and is positioned before, every majority row.
C5_MinorityBeforeMajority ==
  pc = "done" =>
    LET rws == oversampled_df_sorted.rows
    IN  \A a, b \in 1..Len(rws) :
          (IsMinorityDerived(rws[a]) /\ IsMajority(rws[b]))
            => /\ rws[a].row_number < rws[b].row_number
               /\ a < b

\* C5 as amended: the sorted dataset is in ascending order of the index; the
\* minority-derived rows carry the indices 1..N once each and the majority
\* rows the indices 1..M once each, so a majority row of index j stands after
\* every minority-derived row of index below j and before every one above j.
\* The returned dataset holds the same rows at the same positions, without
\* the index.
C5_InterleavedByRowNumber ==
  pc = "done" =>
    LET rws == oversampled_df_sorted.rows
        mins == SelectSeq(rws, IsMinorityDerived)
        majs == SelectSeq(rws, IsMajority)
    IN  /\ \A a, b \in 1..Len(rws) : a < b => rws[a].row_number <= rws[b].row_number
        /\ \A n \in 1..Len(mins) :
             Cardinality({a \in 1..Len(mins) : mins[a].row_number = n}) = 1
        /\ \A n \in 1..Len(majs) :
             Cardinality({a \in 1..Len(majs) : majs[a].row_number = n}) = 1
        /\ \A a, b \in 1..Len(rws) :
             (IsMajority(rws[a]) /\ IsMinorityDerived(rws[b])
                /\ rws[b].row_number < rws[a].row_number) => b < a
        /\ count(returned) = Len(rws)
        /\ \A a \in 1..Len(rws) : \A c \in Range(returned.columns) :
             returned.rows[a][c] = rws[a][c]

C5_Witness ==
  /\ pc = "done"
  /\ \E a, b \in 1..count(oversampled_df_sorted) :
       /\ a < b
       /\ IsMajority(oversampled_df_sorted.rows[a])
       /\ IsMinorityDerived(oversampled_df_sorted.rows[b])
  /\ \E b \in 1..Len(res) : count(res[b]) >= 1

Between(x, lo, hi) == (lo <= x /\ x <= hi) \/ (hi <= x /\ x <= lo)

\* a batch has just been generated: df_vec_modified holds its rows, and row j
\* was built from the pair df_random_sel.rows[j]
BatchGenerated == pc = "loop" /\ i >= 1

Source(j) == df_random_sel.rows[j].datasetA
Neighbour(j) == df_random_sel.rows[j].datasetB

\* C6: every synthetic row's feature vector is b + u*(a - b) for one factor u
\* in [0,1] shared by all coordinates, a and b being the feature vectors of
\* its source and its neighbour, two minority rows with a # b; so every
\* coordinate lies between those of a and b, sparse or dense.
C6_Interpolation ==
  BatchGenerated =>
    \A j \in 1..count(df_vec_modified) :
      LET a == toArray(Source(j).features_for_model)
          b == toArray(Neighbour(j).features_for_model)
          s == df_vec_modified.rows[j].features_for_model
      IN  /\ Source(j) \in Range(Minority)
          /\ Neighbour(j) \in Range(Minority)
          /\ a # b
          /\ s.type = "dense"
          /\ Len(s.values) = Len(a)
          /\ \E u \in 0..UDen :
               \A p \in 1..Len(a) : UDen * s.values[p] = UDen * b[p] + u * (a[p] - b[p])
          /\ \A p \in 1..Len(a) : Between(s.values[p], a[p], b[p])

C6_Witness ==
  /\ BatchGenerated
  /\ \E j \in 1..count(df_vec_modified) :
       LET s == df_vec_modified.rows[j].features_for_model
       IN  /\ Neighbour(j).features_for_model.type = "sparse"
           /\ Source(j).features_for_model.type = "dense"
           /\ toArray(s) # toArray(Source(j).features_for_model)
           /\ toArray(s) # toArray(Neighbour(j).features_for_model)

\* C7: in each batch the selection keeps exactly one (source, neighbour) pair
\* for every minority source instance that has at least one candidate and
\* none for a source instance without candidates, so the batch has one row
\* per source instance that has a candidate.
C7_OnePairPerSource ==
  pc = "generate" =>
    /\ \A j \in 1..count(dataInput_min) :
         Len(PairsOf(df_random_sel, dataInput_min.rows[j])) =
           IF Len(PairsOf(self_similarity_df_selected, dataInput_min.rows[j])) >= 1
           THEN 1 ELSE 0
    /\ count(df_random_sel) =
         Cardinality({j \in 1..count(dataInput_min) :
           Len(PairsOf(self_similarity_df_selected, dataInput_min.rows[j])) >= 1})

\* the minority instances other than instance j that the join pairs with it
JoinedOthers(j) ==
  {q \in 1..count(dataInput_min) :
     /\ q # j
     /\ hashFunction(model, dataInput_min.rows[q].features_for_model)
          = hashFunction(model, dataInput_min.rows[j].features_for_model)}

\* C8: for every minority source instance the candidate list kept after
\* ranking has at most k pairs, never holds the source itself, holds
\* min(k, number of other joined minority instances) neighbours, and no
\* joined candidate left out is strictly closer than one kept.
C8_CandidateList ==
  (pc = "loop" /\ i = 0 /\ ValidInput) =>
    \A j \in 1..count(dataInput_min) :
      LET src == dataInput_min.rows[j]
          kept == PairsOf(self_similarity_df_selected, src)
          joined == PairsOf(self_join_w_distance, src)
          atmost(a, b) == IF a < b THEN a ELSE b
      IN  /\ Len(kept) <= smote_config.k
          /\ \A p \in 1..Len(kept) : kept[p].datasetB # src
          /\ Len(kept) = atmost(smote_config.k, Cardinality(JoinedOthers(j)))
          /\ \A p \in 1..Len(kept) : \A q \in 1..Len(joined) :
               (\A t \in 1..Len(kept) : kept[t].datasetB # joined[q].datasetB)
                 => joined[q].EuclideanDistance >= kept[p].EuclideanDistance

NonFeatureCols == {c \in Range(original_cols_of_input) : c # "features_for_model"}

\* C9: within one batch, for every non-feature column c, either every
\* synthetic row has c equal to its source's c or every synthetic row has c
\* equal to its neighbour's c.
C9_OneSidePerColumn ==
  BatchGenerated =>
    /\ count(df_vec_modified) = count(df_random_sel)
    /\ \A c \in NonFeatureCols :
         \/ \A j \in 1..count(df_vec_modified) :
              df_vec_modified.rows[j][c] = Source(j)[c]
         \/ \A j \in 1..count(df_vec_modified) :
              df_vec_modified.rows[j][c] = Neighbour(j)[c]

C9_Witness ==
  /\ BatchGenerated
  /\ count(df_vec_modified) >= 2
  /\ \A j \in 1..count(df_vec_modified) :
       /\ Source(j).cat # Neighbour(j).cat
       /\ df_vec_modified.rows[j].cat = Neighbour(j).cat

\* C10: every synthetic row is labelled positive_label; the returned label
\* column holds only the two configured labels, and every returned row that
\* is not an input row is labelled positive_label.
C10_SyntheticLabel ==
  /\ BatchGenerated =>
       \A j \in 1..count(df_vec_modified) :
         df_vec_modified.rows[j].label = positive_label
  /\ pc = "done" =>
       \A j \in 1..count(returned) :
         /\ returned.rows[j].label \in {positive_label, negative_label}
         /\ returned.rows[j] \notin Range(vectorized_sdf.rows)
              => returned.rows[j].label = positive_label

C10_Witness ==
  /\ pc = "done"
  /\ Len(Majority) >= 1
  /\ \E j \in 1..count(returned) :
       returned.rows[j] \notin Range(vectorized_sdf.rows)

====
